---- MODULE Spec2Model ----
(***************************************************************************)
(* Model of the l2vpn data plane: the virtual switch (src/bin/vswitch.rs)  *)
(* and the virtual switchport (src/bin/vport.rs).                          *)
(*                                                                         *)
(* The two programs are separate processes, so each has its own            *)
(* specification over the shared variable list: Spec is the switch,        *)
(* VportSpec the switchport (VportFairSpec adds the scheduling fairness).  *)
(* A byte is a number in 0..255, a MAC address a 6-tuple of bytes, a       *)
(* frame a sequence of bytes, an endpoint (SocketAddr) a string.           *)
(***************************************************************************)
EXTENDS Integers, Sequences, FiniteSets, TLC

\* ---------------------------------------------------------------- constants

\* vswitch.rs: const MTU
MTU == 1518

\* vport.rs: frame size constants
ETHER_MTU == 1518

ETHER_MIN == 64

ETHER_HDR == 14

ETHER_FCS == 4

ETHER_DATA_MIN == ETHER_MIN - ETHER_HDR - ETHER_FCS

\* Number of distinct payload byte values the environment puts in frames.
MaxFill == 1

Fills == 1..MaxFill

\* [0xFFu8; 6]
BROADCAST == <<255, 255, 255, 255, 255, 255>>

MacA == <<170, 170, 170, 170, 170, 170>>

MacB == <<187, 187, 187, 187, 187, 187>>

MacC == <<204, 204, 204, 204, 204, 204>>

\* Source MAC fields that arrive in frames (the field is not validated, so
\* it can carry the broadcast address).
SrcMacs == {MacA, MacB, MacC, BROADCAST}

\* Destination MAC fields that arrive in frames.
DstMacs == {MacA, BROADCAST}

\* Transport endpoints of the switchports that talk to the switch.
Endpoints == {"X", "Y"}

\* Lengths of the datagrams that arrive at the switch: a bare pair of MAC
\* fields and a longer frame, plus ShortLen, too short to hold the fields.
SwitchLens == {12, 60}

ShortLen == 8

\* A frame of length len: bytes 0-5 dst, 6-11 src, the rest a payload byte.
MkFrame(dst, src, fill, len) ==
    [i \in 1..len |-> IF i <= 6 THEN dst[i]
                      ELSE IF i <= 12 THEN src[i - 6]
                      ELSE fill]

SwitchFrames ==
    {MkFrame(d, s, f, l) : d \in DstMacs, s \in SrcMacs, f \in Fills, l \in SwitchLens}
        \cup {MkFrame(MacA, MacB, 1, ShortLen)}

\* Lengths of the frames the tap device hands to the switchport (0: EOF).
TapLens == {0, 10, 40, 46, 64}

\* Lengths of the datagrams that arrive at the switchport's socket.
SockLens == {46, 64, 70}

\* The host behind the switchport is MacA and talks to MacB.
TapFrames == {MkFrame(MacB, MacA, f, l) : f \in Fills, l \in TapLens}

SockFrames == {MkFrame(MacA, MacB, f, l) : f \in Fills, l \in SockLens}

\* Outcomes of a send_to or write call: all bytes, an error, fewer bytes.
IoResults == {"ok", "err", "short"}

Zeros(n) == [i \in 1..n |-> 0]

NoFrame == [res |-> "none", data |-> <<>>, from |-> "none"]

\* All iteration orders of a finite set (HashMap::iter has no fixed order).
Orders(S) ==
    {o \in [1..Cardinality(S) -> S] : \A i, j \in 1..Cardinality(S) : i # j => o[i] # o[j]}

VARIABLES
    buf,         \* vswitch main: buf, the reused receive buffer
    mac_table,   \* vswitch main: mac_table
    sw_status,   \* "running", "failed" (ExitCode::FAILURE) or "panicked"
    sent,        \* send_to calls issued for the last received datagram
    rx,          \* what the last recv_from returned: datagram and source
    inserted,    \* mac_table.insert for the last datagram: "no" (not called),
                 \* "new" (returned None) or "replaced" (returned Some)
    latest,      \* history: source endpoint of the latest frame per source MAC
    t2v_buf,     \* tap_to_vswitch: buf
    t2v_pc,      \* tap_to_vswitch thread: "running" or "panicked"
    dev_in,      \* what the last device read of tap_to_vswitch returned
    sock_out,    \* send_to calls of the last tap_to_vswitch iteration
    v2t_buf,     \* vswitch_to_tap: buf
    v2t_pc,      \* vswitch_to_tap thread: "running" or "panicked"
    sock_in,     \* what the last recv_from of vswitch_to_tap returned
    tap_out,     \* device writes of the last vswitch_to_tap iteration
    runt_seen,   \* history: vswitch_to_tap has logged a runt frame
    main_pc,     \* vport main: "join_t2v", "join_v2t" or "exited"
    exit_code    \* vport main: exit_code / the returned ExitCode

switchVars == <<buf, mac_table, sw_status, sent, rx, inserted, latest>>

vportVars ==
    <<t2v_buf, t2v_pc, dev_in, sock_out, v2t_buf, v2t_pc, sock_in, tap_out,
      runt_seen, main_pc, exit_code>>

vars == <<switchVars, vportVars>>

\* ------------------------------------------------------------ switch helpers

\* recv_from(&mut buf): the datagram overwrites the head of the buffer.
RecvInto(b, d) == d \o SubSeq(b, Len(d) + 1, Len(b))

\* let eth_frame = &buf[..no_of_bytes]
EthFrame(b, n) == SubSeq(b, 1, n)

\* Variant of DstMac that reads the source field (wrong slice).
DstMacMut(f) == SubSeq(f, 7, 12)

\* eth_frame[..6]
DstMac(f) == SubSeq(f, 1, 6)

\* eth_frame[6..12]
SrcMac(f) == SubSeq(f, 7, 12)

\* The slices eth_frame[..6] and eth_frame[6..12] are in range.
MacsInRange(n) == n >= 12

\* Variant of AfterExtract that skips a short datagram and goes on.
AfterExtractSkip(n) == "running"

\* try_into().unwrap() on the two slices: the loop goes on when they are in
\* range, the process panics when they are not.
AfterExtract(n) == IF MacsInRange(n) THEN "running" ELSE "panicked"

\* Variant of NeedsLearn that never overrides an entry.
NeedsLearnIfAbsent(t, src, ep) == src \notin DOMAIN t

\* Variant of NeedsLearn that inserts on every frame.
NeedsLearnAlways(t, src, ep) == TRUE

\* mac_table.get(&src_mac) != Some(&src_vport)
NeedsLearn(t, src, ep) == ~(src \in DOMAIN t /\ t[src] = ep)

\* Variant of Insert that forgets the other entries.
InsertOnly(t, src, ep) == [m \in {src} |-> ep]

\* mac_table.insert(src_mac, src_vport)
Insert(t, src, ep) == [m \in DOMAIN t \cup {src} |-> IF m = src THEN ep ELSE t[m]]

\* The learning step.
Learn(t, src, ep) == IF NeedsLearn(t, src, ep) THEN Insert(t, src, ep) ELSE t

\* What the learning step's insert returned, if it was called.
InsertResult(t, src, ep) ==
    IF ~NeedsLearn(t, src, ep) THEN "no"
    ELSE IF src \in DOMAIN t THEN "replaced" ELSE "new"

\* Variant of LookupTable that looks the destination up before learning.
LookupTableBefore(old, new) == old

\* match mac_table.get(&dst_mac): the lookup reads mac_table after the
\* learning step (old: the table when the frame arrived, new: after learning).
LookupTable(old, new) == new

\* Variant of IsBroadcast that floods every unknown destination.
IsBroadcastAny(dst) == TRUE

\* dst_mac == [0xFFu8; 6]
IsBroadcast(dst) == dst = BROADCAST

\* The slice handed to send_to, unicast and flood alike: &buf.
SendData(b, n) == b

\* mac_table.iter().filter(|(mac, _)| **mac != src_mac)
FloodKeys(t, src) == {m \in DOMAIN t : m # src}

\* Variant of FloodSends that goes on with the remaining entries after a
\* failed call.
FloodSendsOn(t, o, data, failAt) ==
    [i \in 1..Len(o) |-> [to |-> t[o[i]], data |-> data, ok |-> (i # failAt)]]

\* The send_to calls of a flood in iteration order o that fails at call
\* failAt (0: no call fails); the loop returns at the first failure.
FloodSends(t, o, data, failAt) ==
    [i \in 1..(IF failAt = 0 THEN Len(o) ELSE failAt) |->
        [to |-> t[o[i]], data |-> data, ok |-> (i # failAt)]]

\* History of the source endpoints, kept apart from the table's own code.
Record(h, d, ep) ==
    [m \in DOMAIN h \cup {SubSeq(d, 7, 12)} |-> IF m = SubSeq(d, 7, 12) THEN ep ELSE h[m]]

\* ----------------------------------------------------------- switch actions

\* The switchport process is not part of the switch's specification.
VportOff ==
    /\ t2v_buf = <<>>
    /\ t2v_pc = "off"
    /\ dev_in = NoFrame
    /\ sock_out = <<>>
    /\ v2t_buf = <<>>
    /\ v2t_pc = "off"
    /\ sock_in = NoFrame
    /\ tap_out = <<>>
    /\ runt_seen = FALSE
    /\ main_pc = "off"
    /\ exit_code = "SUCCESS"

\* let mut buf: [u8; MTU] = [0; MTU]; let mut mac_table = HashMap::new()
Init ==
    /\ buf = Zeros(MTU)
    /\ mac_table = <<>>
    /\ sw_status = "running"
    /\ sent = <<>>
    /\ rx = NoFrame
    /\ inserted = "no"
    /\ latest = <<>>
    /\ VportOff

\* recv_from fails: return ExitCode::FAILURE.
RecvError ==
    /\ sw_status = "running"
    /\ sw_status' = "failed"
    /\ sent' = <<>>
    /\ rx' = [res |-> "err", data |-> <<>>, from |-> "none"]
    /\ inserted' = "no"
    /\ UNCHANGED <<buf, mac_table, latest>>
    /\ UNCHANGED vportVars

\* A datagram too short for the MAC slices: the slice index panics.
ShortDatagram(d, ep) ==
    /\ sw_status = "running"
    /\ ~MacsInRange(Len(d))
    /\ buf' = RecvInto(buf, d)
    /\ rx' = [res |-> "ok", data |-> d, from |-> ep]
    /\ sw_status' = AfterExtract(Len(d))
    /\ sent' = <<>>
    /\ inserted' = "no"
    /\ UNCHANGED <<mac_table, latest>>
    /\ UNCHANGED vportVars

\* One iteration of the dispatch loop for a datagram d from endpoint ep whose
\* destination is in the table after learning: unicast; ok is send_to's outcome.
Unicast(d, ep, ok) ==
    LET b == RecvInto(buf, d)
        f == EthFrame(b, Len(d))
        t == Learn(mac_table, SrcMac(f), ep)
    IN  /\ sw_status = "running"
        /\ MacsInRange(Len(d))
        /\ DstMac(f) \in DOMAIN LookupTable(mac_table, t)
        /\ buf' = b
        /\ rx' = [res |-> "ok", data |-> d, from |-> ep]
        /\ inserted' = InsertResult(mac_table, SrcMac(f), ep)
        /\ mac_table' = t
        /\ latest' = Record(latest, d, ep)
        /\ sent' = <<[to |-> LookupTable(mac_table, t)[DstMac(f)], data |-> SendData(b, Len(d)), ok |-> ok]>>
        /\ sw_status' = IF ok THEN "running" ELSE "failed"
        /\ UNCHANGED vportVars

\* ... whose destination is unknown and is the broadcast address: flood.
Flood(d, ep) ==
    LET b == RecvInto(buf, d)
        f == EthFrame(b, Len(d))
        t == Learn(mac_table, SrcMac(f), ep)
    IN  /\ sw_status = "running"
        /\ MacsInRange(Len(d))
        /\ DstMac(f) \notin DOMAIN LookupTable(mac_table, t)
        /\ IsBroadcast(DstMac(f))
        /\ buf' = b
        /\ rx' = [res |-> "ok", data |-> d, from |-> ep]
        /\ inserted' = InsertResult(mac_table, SrcMac(f), ep)
        /\ mac_table' = t
        /\ latest' = Record(latest, d, ep)
        /\ \E o \in Orders(FloodKeys(t, SrcMac(f))) : \E failAt \in 0..Len(o) :
              /\ sent' = FloodSends(t, o, SendData(b, Len(d)), failAt)
              /\ sw_status' = IF failAt = 0 THEN "running" ELSE "failed"
        /\ UNCHANGED vportVars

\* ... whose destination is unknown and not broadcast: drop.
Drop(d, ep) ==
    LET b == RecvInto(buf, d)
        f == EthFrame(b, Len(d))
        t == Learn(mac_table, SrcMac(f), ep)
    IN  /\ sw_status = "running"
        /\ MacsInRange(Len(d))
        /\ DstMac(f) \notin DOMAIN LookupTable(mac_table, t)
        /\ ~IsBroadcast(DstMac(f))
        /\ buf' = b
        /\ rx' = [res |-> "ok", data |-> d, from |-> ep]
        /\ inserted' = InsertResult(mac_table, SrcMac(f), ep)
        /\ mac_table' = t
        /\ latest' = Record(latest, d, ep)
        /\ sent' = <<>>
        /\ sw_status' = "running"
        /\ UNCHANGED vportVars

Next ==
    \/ RecvError
    \/ \E d \in SwitchFrames, ep \in Endpoints : ShortDatagram(d, ep)
    \/ \E d \in SwitchFrames, ep \in Endpoints, ok \in BOOLEAN : Unicast(d, ep, ok)
    \/ \E d \in SwitchFrames, ep \in Endpoints : Flood(d, ep)
    \/ \E d \in SwitchFrames, ep \in Endpoints : Drop(d, ep)

Spec == Init /\ [][Next]_vars

\* ------------------------------------------------------- switchport helpers

\* tap_file.read(&mut buf) / sock.recv_from(&mut buf): the frame overwrites
\* the head of the buffer.
ReadInto(b, d) == d \o SubSeq(b, Len(d) + 1, Len(b))

\* if bytes_read < ETHER_DATA_MIN { buf[bytes_read..ETHER_DATA_MIN].fill(0) }
PadBuf(b, n) ==
    IF n < ETHER_DATA_MIN
    THEN SubSeq(b, 1, n) \o Zeros(ETHER_DATA_MIN - n) \o SubSeq(b, ETHER_DATA_MIN + 1, Len(b))
    ELSE b

\* Variant of PadLen that leaves the length of a short read as it is.
PadLenNone(n) == n

\* if bytes_read < ETHER_DATA_MIN { bytes_read = ETHER_DATA_MIN }
PadLen(n) == IF n < ETHER_DATA_MIN THEN ETHER_DATA_MIN ELSE n

\* Variant of IsEof that never sees the end of the stream.
IsEofNever(n) == FALSE

\* if bytes_read == 0
IsEof(n) == n = 0

\* Variant of IsRunt that tests against the minimum payload instead.
IsRuntData(n) == n < ETHER_DATA_MIN

\* if bytes_read < ETHER_MIN: a runt
IsRunt(n) == n < ETHER_MIN

\* get_frame_log_msg reads frame[0..6], frame[6..12], frame[12], frame[13]:
\* it returns for a slice of at least 14 bytes and panics otherwise.
FrameLogOk(f) == Len(f) >= ETHER_HDR

\* Variant of ThreadEnded under which join returns at once.
ThreadEndedAlways(pc) == TRUE

\* JoinHandle::join blocks until the thread has ended: it panicked or (never,
\* both loops are infinite) returned.
ThreadEnded(pc) == pc \in {"panicked", "returned"}

\* Variant of JoinResult that loses the panic of the joined thread.
JoinResultOk(pc) == "Ok"

\* JoinHandle::join: Err when the thread panicked, Ok when it returned.
JoinResult(pc) == IF pc = "panicked" THEN "Err" ELSE "Ok"

\* The switch process is not part of the switchport's specification.
SwitchOff ==
    /\ buf = <<>>
    /\ mac_table = <<>>
    /\ sw_status = "off"
    /\ sent = <<>>
    /\ rx = NoFrame
    /\ inserted = "no"
    /\ latest = <<>>

\* main after both thread::spawn calls; each thread with its zeroed buffer.
VportInit ==
    /\ SwitchOff
    /\ t2v_buf = Zeros(ETHER_MTU)
    /\ t2v_pc = "running"
    /\ dev_in = NoFrame
    /\ sock_out = <<>>
    /\ v2t_buf = Zeros(ETHER_MTU)
    /\ v2t_pc = "running"
    /\ sock_in = NoFrame
    /\ tap_out = <<>>
    /\ runt_seen = FALSE
    /\ main_pc = "join_t2v"
    /\ exit_code = "SUCCESS"

\* ------------------------------------------------------- switchport actions

\* tap_to_vswitch: tap_file.read fails, unwrap panics.
T2VReadError ==
    /\ main_pc # "exited"
    /\ t2v_pc = "running"
    /\ t2v_pc' = "panicked"
    /\ dev_in' = [res |-> "err", data |-> <<>>, from |-> "tap0"]
    /\ sock_out' = <<>>
    /\ UNCHANGED <<t2v_buf, v2t_buf, v2t_pc, sock_in, tap_out, runt_seen, main_pc, exit_code>>
    /\ UNCHANGED switchVars

\* tap_to_vswitch: the read returns 0 bytes, panic.
T2VEof(d) ==
    /\ main_pc # "exited"
    /\ t2v_pc = "running"
    /\ IsEof(Len(d))
    /\ t2v_pc' = "panicked"
    /\ dev_in' = [res |-> "ok", data |-> d, from |-> "tap0"]
    /\ sock_out' = <<>>
    /\ UNCHANGED <<t2v_buf, v2t_buf, v2t_pc, sock_in, tap_out, runt_seen, main_pc, exit_code>>
    /\ UNCHANGED switchVars

\* tap_to_vswitch: one iteration for a frame d read from the device; res is
\* the outcome of send_to.
T2VForward(d, res) ==
    LET b == PadBuf(ReadInto(t2v_buf, d), Len(d))
        n == PadLen(Len(d))
    IN  /\ main_pc # "exited"
        /\ t2v_pc = "running"
        /\ ~IsEof(Len(d))
        /\ t2v_buf' = b
        /\ dev_in' = [res |-> "ok", data |-> d, from |-> "tap0"]
        /\ sock_out' = <<[to |-> "vswitch_addr", data |-> SubSeq(b, 1, n), res |-> res]>>
        /\ t2v_pc' = IF res = "ok" /\ FrameLogOk(SubSeq(b, 1, n)) THEN "running" ELSE "panicked"
        /\ UNCHANGED <<v2t_buf, v2t_pc, sock_in, tap_out, runt_seen, main_pc, exit_code>>
        /\ UNCHANGED switchVars

\* vswitch_to_tap: recv_from fails, unwrap panics.
V2TRecvError ==
    /\ main_pc # "exited"
    /\ v2t_pc = "running"
    /\ v2t_pc' = "panicked"
    /\ sock_in' = [res |-> "err", data |-> <<>>, from |-> "none"]
    /\ tap_out' = <<>>
    /\ UNCHANGED <<v2t_buf, runt_seen, t2v_buf, t2v_pc, dev_in, sock_out, main_pc, exit_code>>
    /\ UNCHANGED switchVars

\* vswitch_to_tap: a runt datagram is logged and the loop continues.
V2TRunt(d) ==
    /\ main_pc # "exited"
    /\ v2t_pc = "running"
    /\ IsRunt(Len(d))
    /\ v2t_buf' = ReadInto(v2t_buf, d)
    /\ sock_in' = [res |-> "ok", data |-> d, from |-> "vswitch_addr"]
    /\ tap_out' = <<>>
    /\ runt_seen' = TRUE
    /\ UNCHANGED <<v2t_pc, t2v_buf, t2v_pc, dev_in, sock_out, main_pc, exit_code>>
    /\ UNCHANGED switchVars

\* vswitch_to_tap: one iteration for a datagram d that is no runt; res is the
\* outcome of tap_file.write.
V2TForward(d, res) ==
    LET b == ReadInto(v2t_buf, d)
        n == Len(d)
    IN  /\ main_pc # "exited"
        /\ v2t_pc = "running"
        /\ ~IsRunt(n)
        /\ v2t_buf' = b
        /\ sock_in' = [res |-> "ok", data |-> d, from |-> "vswitch_addr"]
        /\ tap_out' = <<[data |-> SubSeq(b, 1, n), res |-> res]>>
        /\ v2t_pc' = IF res = "ok" /\ FrameLogOk(SubSeq(b, 1, n)) THEN "running" ELSE "panicked"
        /\ UNCHANGED <<runt_seen, t2v_buf, t2v_pc, dev_in, sock_out, main_pc, exit_code>>
        /\ UNCHANGED switchVars

\* main: tap_to_vswitch_handle.join() returns once that thread has ended.
JoinT2V ==
    /\ main_pc = "join_t2v"
    /\ ThreadEnded(t2v_pc)
    /\ exit_code' = IF JoinResult(t2v_pc) = "Err" THEN "FAILURE" ELSE exit_code
    /\ main_pc' = "join_v2t"
    /\ UNCHANGED <<t2v_buf, t2v_pc, dev_in, sock_out, v2t_buf, v2t_pc, sock_in, tap_out, runt_seen>>
    /\ UNCHANGED switchVars

\* main: vswitch_to_tap_handle.join() returns once that thread has ended;
\* main then returns FAILURE or exit_code.
JoinV2T ==
    /\ main_pc = "join_v2t"
    /\ ThreadEnded(v2t_pc)
    /\ exit_code' = IF JoinResult(v2t_pc) = "Err" THEN "FAILURE" ELSE exit_code
    /\ main_pc' = "exited"
    /\ UNCHANGED <<t2v_buf, t2v_pc, dev_in, sock_out, v2t_buf, v2t_pc, sock_in, tap_out, runt_seen>>
    /\ UNCHANGED switchVars

VportNext ==
    \/ T2VReadError
    \/ \E d \in TapFrames : T2VEof(d)
    \/ \E d \in TapFrames, res \in IoResults : T2VForward(d, res)
    \/ V2TRecvError
    \/ \E d \in SockFrames : V2TRunt(d)
    \/ \E d \in SockFrames, res \in IoResults : V2TForward(d, res)
    \/ JoinT2V
    \/ JoinV2T

VportSpec == VportInit /\ [][VportNext]_vars

\* The joins are steps of the main thread, which the scheduler runs; the two
\* loops block on I/O that the environment may never deliver.
VportFairSpec == VportSpec /\ WF_vars(JoinT2V) /\ WF_vars(JoinV2T)

\* ------------------------------------------- switchport, one call per step

\* The two loops block in their system calls, so the other thread runs between
\* the call that fills a buffer and the call that hands it on. The actions
\* below split each iteration at that point: "sending" is tap_to_vswitch
\* between read and send_to, "writing" is vswitch_to_tap between recv_from and
\* write.

\* Variant of T2VSendBuf that slices the other thread's buffer.
T2VSendBufOther == v2t_buf

\* The buffer tap_to_vswitch slices for send_to: its own local buf.
T2VSendBuf == t2v_buf

\* The buffer vswitch_to_tap slices for write: its own local buf.
V2TWriteBuf == v2t_buf

\* tap_to_vswitch: read returns the frame d, which is padded in place.
T2VRead(d) ==
    /\ main_pc # "exited"
    /\ t2v_pc = "running"
    /\ ~IsEof(Len(d))
    /\ t2v_buf' = PadBuf(ReadInto(t2v_buf, d), Len(d))
    /\ dev_in' = [res |-> "ok", data |-> d, from |-> "tap0"]
    /\ sock_out' = <<>>
    /\ t2v_pc' = "sending"
    /\ UNCHANGED <<v2t_buf, v2t_pc, sock_in, tap_out, runt_seen, main_pc, exit_code>>
    /\ UNCHANGED switchVars

\* tap_to_vswitch: send_to of &buf[..bytes_read] with outcome res, then the
\* length check and the log.
T2VSend(res) ==
    LET n == PadLen(Len(dev_in.data))
    IN  /\ main_pc # "exited"
        /\ t2v_pc = "sending"
        /\ sock_out' = <<[to |-> "vswitch_addr", data |-> SubSeq(T2VSendBuf, 1, n), res |-> res]>>
        /\ t2v_pc' = IF res = "ok" /\ FrameLogOk(SubSeq(T2VSendBuf, 1, n))
                     THEN "running" ELSE "panicked"
        /\ UNCHANGED <<t2v_buf, dev_in, v2t_buf, v2t_pc, sock_in, tap_out, runt_seen,
                       main_pc, exit_code>>
        /\ UNCHANGED switchVars

\* vswitch_to_tap: recv_from returns the datagram d, which is no runt.
V2TRecv(d) ==
    /\ main_pc # "exited"
    /\ v2t_pc = "running"
    /\ ~IsRunt(Len(d))
    /\ v2t_buf' = ReadInto(v2t_buf, d)
    /\ sock_in' = [res |-> "ok", data |-> d, from |-> "vswitch_addr"]
    /\ tap_out' = <<>>
    /\ v2t_pc' = "writing"
    /\ UNCHANGED <<runt_seen, t2v_buf, t2v_pc, dev_in, sock_out, main_pc, exit_code>>
    /\ UNCHANGED switchVars

\* vswitch_to_tap: write of &buf[..bytes_read] with outcome res, then the
\* length check and the log.
V2TWrite(res) ==
    LET n == Len(sock_in.data)
    IN  /\ main_pc # "exited"
        /\ v2t_pc = "writing"
        /\ tap_out' = <<[data |-> SubSeq(V2TWriteBuf, 1, n), res |-> res]>>
        /\ v2t_pc' = IF res = "ok" /\ FrameLogOk(SubSeq(V2TWriteBuf, 1, n))
                     THEN "running" ELSE "panicked"
        /\ UNCHANGED <<v2t_buf, sock_in, runt_seen, t2v_buf, t2v_pc, dev_in, sock_out,
                       main_pc, exit_code>>
        /\ UNCHANGED switchVars

VportStepNext ==
    \/ T2VReadError
    \/ \E d \in TapFrames : T2VEof(d)
    \/ \E d \in TapFrames : T2VRead(d)
    \/ \E res \in IoResults : T2VSend(res)
    \/ V2TRecvError
    \/ \E d \in SockFrames : V2TRunt(d)
    \/ \E d \in SockFrames : V2TRecv(d)
    \/ \E res \in IoResults : V2TWrite(res)
    \/ JoinT2V
    \/ JoinV2T

VportStepSpec == VportInit /\ [][VportStepNext]_vars

\* ------------------------------------------------------------------- claims

\* The last datagram the switch received went through learning and the
\* forwarding decision (its send may have failed).
Handled == sw_status \in {"running", "failed"} /\ rx.res = "ok" /\ Len(rx.data) >= 12

\* The MAC fields of the last datagram the switch received, read off the
\* datagram itself.
RxDst == SubSeq(rx.data, 1, 6)

RxSrc == SubSeq(rx.data, 7, 12)

SentTo == {sent[i].to : i \in 1..Len(sent)}

\* C1 (as claimed): a frame of length 1 <= L < 60 read from the device is sent
\* as a datagram of exactly 60 bytes whose bytes [L:60) are zero.
C1_PaddingTo60 ==
    (dev_in.res = "ok" /\ Len(dev_in.data) >= 1 /\ Len(dev_in.data) < 60 /\ Len(sock_out) = 1)
        => /\ Len(sock_out[1].data) = 60
           /\ \A i \in (Len(dev_in.data) + 1)..60 : sock_out[1].data[i] = 0

\* C2 (as claimed): every datagram the switch sends for a frame is exactly the
\* received bytes of that frame, in length and in content.
C2_ForwardingFidelity ==
    Handled => \A i \in 1..Len(sent) : sent[i].data = rx.data

\* C3 (as claimed): the forwarding table never has an entry keyed by the
\* broadcast address.
C3_BroadcastNeverLearned == BROADCAST \notin DOMAIN mac_table

\* C4 (as claimed, for floods in which no send fails and with no broadcast
\* key in the table): a broadcast frame is sent to exactly the endpoints of
\* the table other than the source's endpoint, so never to its own source.
C4_BroadcastCorrect ==
    (/\ Handled
     /\ RxDst = BROADCAST
     /\ BROADCAST \notin DOMAIN mac_table
     /\ \A i \in 1..Len(sent) : sent[i].ok)
        => SentTo = {mac_table[m] : m \in DOMAIN mac_table} \ {mac_table[RxSrc]}

\* C5 (as claimed): once either direction has terminated, the switchport
\* process eventually exits with failure status.
C5_ExitOnEitherTermination ==
    (t2v_pc = "panicked" \/ v2t_pc = "panicked")
        ~> (main_pc = "exited" /\ exit_code = "FAILURE")

\* C5 (amended): once both directions have terminated, the switchport process
\* eventually exits with failure status.
C5_ExitAfterBothTerminated ==
    (t2v_pc = "panicked" /\ v2t_pc = "panicked")
        ~> (main_pc = "exited" /\ exit_code = "FAILURE")

C5_Witness ==
    main_pc = "exited" /\ exit_code = "FAILURE" /\ t2v_pc = "panicked" /\ v2t_pc = "panicked"

\* C6 (as claimed): a frame whose destination is not a key of the table when
\* the frame arrives, and is not broadcast, causes no send.
C6_UnknownUnicastDrop ==
    [][(/\ sw_status = "running"
        /\ rx'.res = "ok"
        /\ Len(rx'.data) >= 12
        /\ SubSeq(rx'.data, 1, 6) \notin DOMAIN mac_table
        /\ SubSeq(rx'.data, 1, 6) # BROADCAST)
           => sent' = <<>>]_vars

\* C6 (amended): a frame whose destination is not a key of the table when the
\* frame arrives, is not the frame's own source MAC and is not broadcast,
\* causes no send.
C6_UnknownUnicastDropUnlessOwnSource ==
    [][(/\ sw_status = "running"
        /\ rx'.res = "ok"
        /\ Len(rx'.data) >= 12
        /\ SubSeq(rx'.data, 1, 6) \notin DOMAIN mac_table
        /\ SubSeq(rx'.data, 1, 6) # SubSeq(rx'.data, 7, 12)
        /\ SubSeq(rx'.data, 1, 6) # BROADCAST)
           => sent' = <<>>]_vars

C6_Witness ==
    /\ Handled
    /\ RxDst \notin DOMAIN mac_table
    /\ RxDst # BROADCAST
    /\ Cardinality(DOMAIN mac_table) >= 2
    /\ sent = <<>>
    /\ sw_status = "running"

\* C7: a frame whose destination MAC has a table entry causes exactly one
\* send, addressed to the endpoint the table records for that destination.
C7_UnicastCorrect ==
    (Handled /\ RxDst \in DOMAIN mac_table)
        => Len(sent) = 1 /\ sent[1].to = mac_table[RxDst]

C7_Witness ==
    /\ Handled
    /\ RxDst \in DOMAIN mac_table
    /\ RxDst # RxSrc
    /\ Cardinality(DOMAIN mac_table) >= 3
    /\ Len(sent) = 1
    /\ sent[1].ok
    /\ sent[1].to = mac_table[RxDst]
    /\ sent[1].to # rx.from

\* C8: every MAC that has appeared as a source is recorded with the source
\* endpoint of the latest frame bearing it (one endpoint per MAC).
C8_LatestSourceWins ==
    \A m \in DOMAIN latest : m \in DOMAIN mac_table /\ mac_table[m] = latest[m]

C8_Witness ==
    /\ Handled
    /\ inserted = "replaced"
    /\ RxSrc # BROADCAST
    /\ mac_table[RxSrc] = rx.from
    /\ latest[RxSrc] = rx.from

\* C9: the switch inserts exactly when the table does not already record the
\* frame's (source MAC, source endpoint) pair; a frame that repeats the pair
\* of the frame before it inserts nothing and leaves the table as it is.
C9_LearningIdempotence ==
    [][(/\ sw_status = "running"
        /\ rx'.res = "ok"
        /\ Len(rx'.data) >= 12)
           => /\ (inserted' # "no") <=>
                    ~(/\ SubSeq(rx'.data, 7, 12) \in DOMAIN mac_table
                      /\ mac_table[SubSeq(rx'.data, 7, 12)] = rx'.from)
              /\ (inserted' = "no") => (mac_table' = mac_table)
              /\ (Handled /\ SubSeq(rx'.data, 7, 12) = RxSrc /\ rx'.from = rx.from)
                    => (inserted' = "no" /\ mac_table' = mac_table)]_vars

C9_Witness ==
    /\ Handled
    /\ inserted = "no"
    /\ mac_table[RxSrc] = rx.from
    /\ sw_status = "running"

\* C10: a datagram shorter than 64 bytes causes no device write and leaves
\* the socket->device direction running; a datagram of at least 64 bytes,
\* also one that follows a runt, is written to the device in full.
C10_RuntDrop ==
    /\ (sock_in.res = "ok" /\ Len(sock_in.data) < 64)
          => (tap_out = <<>> /\ v2t_pc = "running")
    /\ (sock_in.res = "ok" /\ Len(sock_in.data) >= 64)
          => (Len(tap_out) = 1 /\ tap_out[1].data = sock_in.data)

C10_Witness ==
    /\ runt_seen
    /\ sock_in.res = "ok"
    /\ Len(sock_in.data) >= 64
    /\ Len(tap_out) = 1
    /\ tap_out[1].data = sock_in.data
    /\ tap_out[1].res = "ok"
    /\ v2t_pc = "running"

\* C11: main is past a join only when the joined direction has terminated, so
\* the switchport process has exited only when both directions have
\* terminated; a direction only ever terminates abnormally, and the process
\* then exits with failure status, never with success.
C11_NoSuccessfulExit ==
    /\ main_pc \in {"join_v2t", "exited"} => t2v_pc = "panicked"
    /\ main_pc = "exited" => (v2t_pc = "panicked" /\ exit_code = "FAILURE")
    /\ t2v_pc \in {"running", "panicked"}
    /\ v2t_pc \in {"running", "panicked"}

C11_Witness ==
    /\ main_pc = "exited"
    /\ exit_code = "FAILURE"
    /\ dev_in.res = "ok"
    /\ Len(dev_in.data) = 0
    /\ Len(tap_out) = 1
    /\ tap_out[1].res = "short"

\* C12: a failed receive, a failed unicast send and a failed send in a flood
\* each leave the switch terminated with failure status, and the switch is
\* terminated with failure status for no other reason; the failed send is the
\* last send performed (the flood destinations after it get nothing), and once
\* the switch has terminated no frame is received and no send is performed.
C12_FatalOnError ==
    /\ [](/\ rx.res = "err" => (sw_status = "failed" /\ sent = <<>>)
          /\ \A i \in 1..Len(sent) : ~sent[i].ok => (sw_status = "failed" /\ i = Len(sent))
          /\ sw_status = "failed" =>
                (rx.res = "err" \/ (Len(sent) >= 1 /\ ~sent[Len(sent)].ok)))
    /\ [][sw_status = "failed" =>
            (sw_status' = "failed" /\ rx' = rx /\ sent' = sent /\ mac_table' = mac_table)]_vars

C12_Witness ==
    /\ sw_status = "failed"
    /\ rx.res = "ok"
    /\ RxDst = BROADCAST
    /\ BROADCAST \notin DOMAIN mac_table
    /\ Cardinality({m \in DOMAIN mac_table : m # RxSrc}) = 2
    /\ Len(sent) = 1
    /\ ~sent[1].ok

\* C13 (as claimed): every datagram the device->socket direction sends is at
\* least 64 bytes long, so a switchport that receives it with its sent length
\* does not classify it as a runt.
C13_SentNeverRunt ==
    \A i \in 1..Len(sock_out) :
        /\ Len(sock_out[i].data) >= 64
        /\ ~IsRunt(Len(sock_out[i].data))

\* C14 (as claimed): the copies of a flooded frame go to distinct endpoints:
\* no endpoint is sent more than one copy of the frame, even when several
\* addresses of the table map to it.
C14_FloodDistinctEndpoints ==
    (Handled /\ RxDst = BROADCAST)
        => \A i, j \in 1..Len(sent) : sent[i].to = sent[j].to => i = j

\* C15: a received datagram shorter than 12 bytes makes the MAC extraction
\* fail: the switch terminates abnormally with the table as it was when the
\* datagram arrived and without any send, and it never goes on to another
\* frame.
C15_ShortDatagramFatal ==
    /\ []((rx.res = "ok" /\ Len(rx.data) < 12)
            => (sw_status = "panicked" /\ sent = <<>> /\ inserted = "no"))
    /\ [][/\ (sw_status = "running" /\ rx'.res = "ok" /\ Len(rx'.data) < 12)
                => mac_table' = mac_table
          /\ sw_status = "panicked"
                => (sw_status' = "panicked" /\ rx' = rx /\ sent' = sent
                    /\ mac_table' = mac_table)]_vars

C15_Witness ==
    /\ sw_status = "panicked"
    /\ rx.res = "ok"
    /\ Len(rx.data) = ShortLen
    /\ sent = <<>>
    /\ Cardinality(DOMAIN mac_table) >= 2

\* C16: processing a frame changes at most the table entry keyed by the
\* frame's source MAC, which then maps to the frame's source endpoint; every
\* other entry keeps its value, no entry is ever removed (the key set only
\* grows), and a step that receives no frame or a frame too short for its
\* MAC fields leaves the table alone.
C16_TableFrameCondition ==
    [][/\ DOMAIN mac_table \subseteq DOMAIN mac_table'
       /\ \A m \in DOMAIN mac_table' :
             (m \notin DOMAIN mac_table \/ mac_table'[m] # mac_table[m])
                => /\ rx'.res = "ok"
                   /\ Len(rx'.data) >= 12
                   /\ m = SubSeq(rx'.data, 7, 12)
                   /\ mac_table'[m] = rx'.from]_vars

C16_Witness ==
    /\ Handled
    /\ inserted = "replaced"
    /\ Cardinality(DOMAIN mac_table) = 3
    /\ mac_table[RxSrc] = rx.from
    /\ \E m \in DOMAIN mac_table : mac_table[m] # rx.from

\* C17: a device read that returns 0 bytes terminates the device->socket
\* direction abnormally: nothing is padded (the buffer stays as it was),
\* nothing is sent for that read, and the direction reads and forwards no
\* further frame.
C17_EofFatal ==
    /\ []((dev_in.res = "ok" /\ Len(dev_in.data) = 0)
            => (t2v_pc = "panicked" /\ sock_out = <<>>))
    /\ [][/\ (t2v_pc = "running" /\ dev_in'.res = "ok" /\ Len(dev_in'.data) = 0)
                => t2v_buf' = t2v_buf
          /\ t2v_pc = "panicked"
                => (t2v_pc' = "panicked" /\ dev_in' = dev_in /\ sock_out' = sock_out
                    /\ t2v_buf' = t2v_buf)]_vars

C17_Witness ==
    /\ t2v_pc = "panicked"
    /\ dev_in.res = "ok"
    /\ Len(dev_in.data) = 0
    /\ sock_out = <<>>
    /\ t2v_buf # Zeros(ETHER_MTU)
    /\ v2t_pc = "running"

\* The state of the device->socket direction and of the socket->device
\* direction.
T2VState == <<t2v_buf, t2v_pc, dev_in, sock_out>>

V2TState == <<v2t_buf, v2t_pc, sock_in, tap_out, runt_seen>>

\* C18: under every interleaving of the two directions' calls, the bytes
\* written to the device are exactly the bytes of the datagram last received
\* (which is no runt), the bytes sent for a device read that needs no padding
\* are exactly the bytes of that read, a frame in flight in one direction
\* stays in that direction's buffer while the other direction runs, and no
\* step of one direction changes the state of the other.
C18_DirectionsIsolated ==
    /\ [](/\ \A i \in 1..Len(tap_out) :
                /\ sock_in.res = "ok"
                /\ Len(sock_in.data) >= ETHER_MIN
                /\ tap_out[i].data = sock_in.data
          /\ \A i \in 1..Len(sock_out) :
                /\ dev_in.res = "ok"
                /\ Len(dev_in.data) >= ETHER_DATA_MIN => sock_out[i].data = dev_in.data
          /\ t2v_pc = "sending" => SubSeq(t2v_buf, 1, Len(dev_in.data)) = dev_in.data
          /\ v2t_pc = "writing" => SubSeq(v2t_buf, 1, Len(sock_in.data)) = sock_in.data)
    /\ [][T2VState' = T2VState \/ V2TState' = V2TState]_vars

C18_Witness ==
    /\ t2v_pc = "sending"
    /\ Len(dev_in.data) >= ETHER_DATA_MIN
    /\ SubSeq(t2v_buf, 1, Len(dev_in.data)) = dev_in.data
    /\ Len(tap_out) = 1
    /\ tap_out[1].res = "ok"
    /\ tap_out[1].data = sock_in.data
    /\ v2t_pc = "running"

\* C19: the forwarding decision for a frame is taken against the table as it
\* is after learning from that frame: a destination that the table maps after
\* learning gets one send, to the endpoint it maps to; a destination it does
\* not map and that is not broadcast gets none; and a frame whose destination
\* MAC is its own source MAC is sent back, once, to the endpoint it came
\* from, also when that MAC was unknown before the frame arrived.
C19_LearnBeforeLookup ==
    [][(sw_status = "running" /\ rx'.res = "ok" /\ Len(rx'.data) >= 12)
         => LET dst == SubSeq(rx'.data, 1, 6)
                src == SubSeq(rx'.data, 7, 12)
                post == [m \in DOMAIN mac_table \cup {src} |->
                            IF m = src THEN rx'.from ELSE mac_table[m]]
            IN  /\ dst \in DOMAIN post
                     => (Len(sent') = 1 /\ sent'[1].to = post[dst])
                /\ dst = src
                     => (Len(sent') = 1 /\ sent'[1].to = rx'.from)
                /\ (dst \notin DOMAIN post /\ dst # BROADCAST)
                     => sent' = <<>>]_vars

C19_Witness ==
    /\ Handled
    /\ RxDst = RxSrc
    /\ RxDst # BROADCAST
    /\ inserted = "new"
    /\ Len(sent) = 1
    /\ sent[1].ok
    /\ sent[1].to = rx.from

\* C20: get_frame_log_msg, called after a send or write that succeeded in
\* full, is handed the slice that was sent or written, and that slice is at
\* least 14 bytes long in both directions: its reads of bytes 0..13 are in
\* range, the direction is still running after the log, and a direction that
\* has terminated did so because of its read, its send or its write.
C20_LogSliceInRange ==
    /\ \A i \in 1..Len(sock_out) :
          sock_out[i].res = "ok"
             => (Len(sock_out[i].data) >= ETHER_HDR /\ t2v_pc = "running")
    /\ \A i \in 1..Len(tap_out) :
          tap_out[i].res = "ok"
             => (Len(tap_out[i].data) >= ETHER_HDR /\ v2t_pc = "running")
    /\ t2v_pc = "panicked"
          => \/ dev_in.res = "err"
             \/ Len(dev_in.data) = 0
             \/ (Len(sock_out) = 1 /\ sock_out[1].res # "ok")
    /\ v2t_pc = "panicked"
          => \/ sock_in.res = "err"
             \/ (Len(tap_out) = 1 /\ tap_out[1].res # "ok")

C20_Witness ==
    /\ dev_in.res = "ok"
    /\ Len(dev_in.data) \in 1..(ETHER_HDR - 1)
    /\ Len(sock_out) = 1
    /\ sock_out[1].res = "ok"
    /\ Len(sock_out[1].data) >= ETHER_HDR
    /\ t2v_pc = "running"
    /\ Len(tap_out) = 1
    /\ tap_out[1].res = "ok"
    /\ v2t_pc = "running"

====
